---------------------------- MODULE Spec2Model ----------------------------
(***************************************************************************)
(* Model of the paper-trading ledger of the stock dashboard                *)
(* (src/paper_trading.py) together with the live-quote lookup it uses      *)
(* (src/realtime_prices.py), of the price alerts (src/price_alerts.py,     *)
(* src/trading_ui.py), of the resampler (src/data_fetcher.py), of the      *)
(* technical indicators (src/indicators.py) and of the session state of    *)
(* the dashboard page (src/fromscratch.py).                                *)
(*                                                                         *)
(* Numbers.  Share quantities are Python ints and are modelled as          *)
(* integers.  Money amounts (cash_balance, price, avg_price, total_cost,   *)
(* total_value) are Python floats; they are modelled as exact rationals    *)
(* [n, d] in lowest terms with d > 0, so "/" is a real division and the    *)
(* comparison of two amounts is the comparison the code makes.  IEEE-754   *)
(* rounding is not modelled: an equality of two amounts in this module is  *)
(* the equality "within floating tolerance" of the program.                *)
(*                                                                         *)
(* The Python value None is the record [n |-> 0, d |-> 0], which is no     *)
(* rational (d = 0).                                                       *)
(***************************************************************************)
EXTENDS Integers, Sequences, FiniteSets, TLC

VARIABLES
    initial_balance,  \* PaperTradingAccount.initial_balance
    cash_balance,     \* PaperTradingAccount.cash_balance
    positions,        \* PaperTradingAccount.positions: ticker -> Position
    trade_history,    \* PaperTradingAccount.trade_history: list of Trade
    call,             \* the call that has just run, with its arguments
    result,           \* the (success, message) pair that call returned
    requests,         \* tickers that call asked the price service for
    alerts,           \* AlertManager.alerts: list of PriceAlert
    now,              \* the clock datetime.now() reads
    session_state     \* st.session_state: the keys the dashboard page keeps

vars == <<initial_balance, cash_balance, positions, trade_history, call, result, requests,
          alerts, now, session_state>>

ledger == <<cash_balance, positions, trade_history>>

--------------------------------------------------------------------------
(* Bounds of the model *)

\* Longest trade history explored (successful trades since the last reset).
MaxTrades == 2

\* Balances an account is created with (the constructor's parameter).
InitialBalances == {0, 4}

\* Ticker strings callers pass, in the letter cases they pass them.
RawTickers == {"aapl", "AAPL", "msft"}

\* Sides callers pass; "HOLD" stands for any string that is not a side.
TradeTypes == {"BUY", "SELL", "HOLD"}

\* Share quantities callers pass.
Quantities == {-1, 0, 1, 2}

\* Prices callers pass explicitly, and prices the quote service reports.
PriceValues == {1, 2}

--------------------------------------------------------------------------
(* Float arithmetic, as exact rationals *)

None == [n |-> 0, d |-> 0]

Abs(x) == IF x < 0 THEN -x ELSE x

RECURSIVE GCD(_, _)
GCD(a, b) == IF b = 0 THEN a ELSE GCD(b, a % b)

\* The rational n/d (d # 0) in lowest terms with a positive denominator.
Rat(n, d) ==
    LET g == GCD(Abs(n), Abs(d))
        s == IF d < 0 THEN -1 ELSE 1
    IN  [n |-> (s * n) \div g, d |-> (s * d) \div g]

\* float(k) of an int k.
float(k) == [n |-> k, d |-> 1]

FAdd(a, b) == Rat(a.n * b.d + b.n * a.d, a.d * b.d)
FSub(a, b) == Rat(a.n * b.d - b.n * a.d, a.d * b.d)
FMul(a, b) == Rat(a.n * b.n, a.d * b.d)
FDiv(a, b) == Rat(a.n * b.d, a.d * b.n)
FLt(a, b)  == a.n * b.d < b.n * a.d
FLe(a, b)  == a.n * b.d <= b.n * a.d

\* int(x): truncation toward zero.
int(x) == IF x.n >= 0 THEN x.n \div x.d ELSE -((-x.n) \div x.d)

\* str.upper() on the ticker strings of the model.
upper(t) ==
    CASE t = "aapl" -> "AAPL"
      [] t = "msft" -> "MSFT"
      [] OTHER      -> t


--------------------------------------------------------------------------
(* Trade and Position *)

\* Trade.__init__; timestamp is what datetime.now() reads (execute_trade
\* passes no timestamp of its own).
Trade(ticker, trade_type, quantity, price, timestamp) ==
    [ticker      |-> upper(ticker),
     trade_type  |-> trade_type,
     quantity    |-> int(float(quantity)),
     price       |-> price,
     timestamp   |-> timestamp,
     total_value |-> FMul(float(int(float(quantity))), price)]

\* Trade.to_dict
to_dict(self) ==
    [ticker      |-> self.ticker,
     type        |-> self.trade_type,
     quantity    |-> self.quantity,
     price       |-> self.price,
     total_value |-> self.total_value,
     timestamp   |-> self.timestamp]

\* Position.__init__
Position(ticker) ==
    [ticker     |-> upper(ticker),
     quantity   |-> 0,
     avg_price  |-> float(0),
     total_cost |-> float(0)]

\* Position.add_shares
add_shares(self, quantity, price) ==
    LET new_total_cost == FAdd(self.total_cost, FMul(float(quantity), price))
        new_quantity   == self.quantity + quantity
    IN  [self EXCEPT
            !.avg_price  = IF new_quantity > 0
                           THEN FDiv(new_total_cost, float(new_quantity))
                           ELSE @,
            !.quantity   = new_quantity,
            !.total_cost = new_total_cost]

\* remove_shares that forgets to recompute total_cost after a partial sale.
remove_shares_stale_cost(self, quantity) ==
    LET q == self.quantity - quantity
    IN  IF q <= 0
        THEN [self EXCEPT !.quantity = 0,
                          !.avg_price = float(0),
                          !.total_cost = float(0)]
        ELSE [self EXCEPT !.quantity = q]

\* Position.remove_shares
remove_shares(self, quantity) ==
    LET q == self.quantity - quantity
    IN  IF q <= 0
        THEN [self EXCEPT !.quantity = 0,
                          !.avg_price = float(0),
                          !.total_cost = float(0)]
        ELSE [self EXCEPT !.quantity = q,
                          !.total_cost = FMul(float(q), self.avg_price)]

--------------------------------------------------------------------------
(* PaperTradingAccount.execute_trade *)

\* trade_price that falls back to a price of 0 when there is no quote.
trade_price_default_zero(price, live) ==
    IF price = None THEN (IF live = None THEN float(0) ELSE live) ELSE price

\* The price the trade runs at: the caller's, or the live quote when the
\* caller passed none.  live is what get_live_price returned (None: no quote).
trade_price(price, live) == IF price = None THEN live ELSE price

\* The tickers execute_trade asks the price service for.
live_price_requests(ticker, price) ==
    IF price = None THEN <<upper(ticker)>> ELSE <<>>

\* The BUY validation with the comparison turned round.
insufficient_funds_reversed(total_cost, cash) == FLt(total_cost, cash)

\* The BUY validation: total_cost > self.cash_balance
insufficient_funds(total_cost, cash) == FLt(cash, total_cost)

\* The SELL validation without the quantity test.
insufficient_shares_ticker_only(pos, ticker, quantity) ==
    ticker \notin DOMAIN pos

\* The SELL validation:
\* ticker not in self.positions or self.positions[ticker].quantity < quantity
insufficient_shares(pos, ticker, quantity) ==
    \/ ticker \notin DOMAIN pos
    \/ pos[ticker].quantity < quantity

\* self.positions[ticker] = value
dict_set(pos, ticker, value) ==
    [t \in DOMAIN pos \cup {ticker} |-> IF t = ticker THEN value ELSE pos[t]]

\* del self.positions[ticker]
dict_del(pos, ticker) == [t \in DOMAIN pos \ {ticker} |-> pos[t]]

\* The record put at the front of the list: insert(0, trade).
record_trade_at_front(history, trade) == <<trade>> \o history

\* self.trade_history.append(trade)
record_trade(history, trade) == Append(history, trade)

failure(cash, pos, history, msg) ==
    [ok |-> FALSE, msg |-> msg,
     cash_balance |-> cash, positions |-> pos, trade_history |-> history]

\* The BUY branch, after validation.
execute_buy(cash, pos, ticker, quantity, price) ==
    LET total_cost == FMul(float(quantity), price)
        held       == IF ticker \in DOMAIN pos THEN pos ELSE dict_set(pos, ticker, Position(ticker))
    IN  [cash_balance |-> FSub(cash, total_cost),
         positions    |-> dict_set(held, ticker, add_shares(held[ticker], quantity, price))]

\* A SELL branch that credits the cash but leaves the position as it was.
execute_sell_keeps_shares(cash, pos, ticker, quantity, price) ==
    [cash_balance |-> FAdd(cash, FMul(float(quantity), price)),
     positions    |-> pos]

\* The SELL branch, after validation.
execute_sell(cash, pos, ticker, quantity, price) ==
    LET total_value == FMul(float(quantity), price)
        sold        == dict_set(pos, ticker, remove_shares(pos[ticker], quantity))
    IN  [cash_balance |-> FAdd(cash, total_value),
         positions    |-> IF sold[ticker].quantity = 0 THEN dict_del(sold, ticker) ELSE sold]

\* The whole method: the account after the call and the returned (success,
\* message) pair; the message is modelled by its fixed leading words.
\* timestamp is the clock's reading when the trade is recorded.
execute_trade(cash, pos, history, raw_ticker, trade_type, quantity, price_arg, live, timestamp) ==
    LET ticker == upper(raw_ticker)
        price  == trade_price(price_arg, live)
    IN  IF price = None
        THEN failure(cash, pos, history, "Could not fetch current price")
        ELSE IF trade_type = "BUY"
        THEN IF insufficient_funds(FMul(float(quantity), price), cash)
             THEN failure(cash, pos, history, "Insufficient funds")
             ELSE LET b == execute_buy(cash, pos, ticker, quantity, price)
                  IN  [ok |-> TRUE, msg |-> "Successfully executed",
                       cash_balance  |-> b.cash_balance,
                       positions     |-> b.positions,
                       trade_history |-> record_trade(history, Trade(ticker, trade_type, quantity, price, timestamp))]
        ELSE IF trade_type = "SELL"
        THEN IF insufficient_shares(pos, ticker, quantity)
             THEN failure(cash, pos, history, "Insufficient shares")
             ELSE LET s == execute_sell(cash, pos, ticker, quantity, price)
                  IN  [ok |-> TRUE, msg |-> "Successfully executed",
                       cash_balance  |-> s.cash_balance,
                       positions     |-> s.positions,
                       trade_history |-> record_trade(history, Trade(ticker, trade_type, quantity, price, timestamp))]
        ELSE failure(cash, pos, history, "Invalid trade type")

--------------------------------------------------------------------------
(* Valuation: get_portfolio_value and get_positions_df *)

\* The orders in which a dict with key set S can be iterated (the model keeps
\* the keys of positions, not their insertion order).
Orders(S) ==
    {s \in [1..Cardinality(S) -> S] : {s[i] : i \in 1..Cardinality(S)} = S}

\* get_multiple_prices that gives up on the whole batch when one ticker has
\* no quote.
get_multiple_prices_all_or_nothing(tickers, quotes) ==
    IF \E i \in 1..Len(tickers) : quotes[tickers[i]] = None
    THEN [t \in {} |-> None]
    ELSE [t \in {tickers[i] : i \in 1..Len(tickers)} |-> quotes[t]]

\* RealtimePriceService.get_multiple_prices: the dict of the quoted prices of
\* the tickers asked for; a ticker with no quote (quotes[t] = None) gets no
\* entry.  quotes[t] is what get_live_price answers for t.
get_multiple_prices(tickers, quotes) ==
    [t \in {u \in {tickers[i] : i \in 1..Len(tickers)} : quotes[u] # None} |-> quotes[t]]

\* Position.get_current_value
get_current_value(self, current_price) == FMul(float(self.quantity), current_price)

\* Position.get_pnl
get_pnl(self, current_price) == FSub(get_current_value(self, current_price), self.total_cost)

\* Position.get_pnl_percent
get_pnl_percent(self, current_price) ==
    IF self.total_cost = float(0)
    THEN float(0)
    ELSE FMul(FDiv(get_pnl(self, current_price), self.total_cost), float(100))

\* The valuation loop that gives up (values nothing) when a ticker has no
\* quote.
RECURSIVE positions_value_all_or_nothing(_, _, _, _)
positions_value_all_or_nothing(pos, prices, items, acc) ==
    IF items = << >>
    THEN acc
    ELSE IF Head(items) \in DOMAIN prices
         THEN positions_value_all_or_nothing(pos, prices, Tail(items),
                  FAdd(acc, get_current_value(pos[Head(items)], prices[Head(items)])))
         ELSE float(0)

\* The loop of get_portfolio_value over self.positions.items(), from
\* positions_value = 0.
RECURSIVE positions_value(_, _, _, _)
positions_value(pos, prices, items, acc) ==
    IF items = << >>
    THEN acc
    ELSE positions_value(pos, prices, Tail(items),
             IF Head(items) \in DOMAIN prices
             THEN FAdd(acc, get_current_value(pos[Head(items)], prices[Head(items)]))
             ELSE acc)

\* PaperTradingAccount.get_portfolio_value; tickers is list(self.positions.keys()).
get_portfolio_value(cash, pos, tickers, quotes) ==
    IF tickers = << >>
    THEN cash
    ELSE FAdd(cash, positions_value(pos, get_multiple_prices(tickers, quotes), tickers, float(0)))

\* One row of the positions table.
positions_row(ticker, position, current_price) ==
    [Ticker        |-> ticker,
     Quantity      |-> position.quantity,
     AvgPrice      |-> position.avg_price,
     CurrentPrice  |-> current_price,
     TotalCost     |-> position.total_cost,
     CurrentValue  |-> get_current_value(position, current_price),
     PnL           |-> get_pnl(position, current_price),
     PnLPercent    |-> get_pnl_percent(position, current_price)]

\* The loop of get_positions_df over self.positions.items(): a row for each
\* held ticker that has a price, none for the others.
RECURSIVE positions_data(_, _, _)
positions_data(pos, prices, items) ==
    IF items = << >>
    THEN << >>
    ELSE (IF Head(items) \in DOMAIN prices
          THEN <<positions_row(Head(items), pos[Head(items)], prices[Head(items)])>>
          ELSE << >>)
         \o positions_data(pos, prices, Tail(items))

\* PaperTradingAccount.get_positions_df; the DataFrame is the list of its rows.
get_positions_df(pos, tickers, quotes) ==
    IF tickers = << >>
    THEN << >>
    ELSE positions_data(pos, get_multiple_prices(tickers, quotes), tickers)

\* The tickers get_portfolio_value and get_positions_df ask the price service
\* for: none when nothing is held, else each held ticker once.
valuation_requests(tickers) == tickers

--------------------------------------------------------------------------
(* The exported table: get_trade_history_df *)

\* df.sort_values('timestamp', ascending=False) on the rows of history: the
\* orders of the rows (named by their positions in history) in which the
\* timestamps never increase.  The sort is pandas' default quicksort, which
\* is not stable: rows with equal timestamps may come out in either order.
sort_values_descending(history) ==
    {order \in Orders(1..Len(history)) :
        \A a, b \in 1..Len(history) :
            a < b => history[order[a]].timestamp >= history[order[b]].timestamp}

\* PaperTradingAccount.get_trade_history_df: the frames the call may return.
\* A frame is the sequence of its rows; a row keeps, as index, the position
\* its trade has in trade_history (counted from 0).  An empty history gives
\* the empty frame.
get_trade_history_df(history) ==
    IF history = << >> THEN {<< >>}
    ELSE {[r \in 1..Len(history) |->
              [index |-> order[r] - 1, row |-> to_dict(history[order[r]])]] :
          order \in sort_values_descending(history)}

--------------------------------------------------------------------------
(* Price alerts: PriceAlert and AlertManager (src/price_alerts.py) *)

alertVars == <<alerts, now>>

\* Alerts ever created by one manager (they are numbered as created: id is
\* the identity of the PriceAlert object).
MaxAlerts == 2

\* Latest time the clock reaches.
MaxClock == 1

\* Directions callers pass as alert_type.
AlertTypes == {"above", "below"}

\* Ticker strings callers pass to add_alert.
AlertTickers == {"aapl", "MSFT"}

\* Target prices callers pass to add_alert.
AlertTargets == {2}

\* Prices the price service quotes for an alert's ticker: below, at and above
\* the target.
AlertPrices == {1, 2, 3}

\* Indices callers pass to remove_alert.
Indices == -1..MaxAlerts

\* triggered_at = None
NoTime == -1

\* PriceAlert.__init__ (condition, a description, and created_at are not part
\* of this model).
PriceAlert(id, ticker, alert_type, target_price) ==
    [id           |-> id,
     ticker       |-> upper(ticker),
     alert_type   |-> alert_type,
     target_price |-> float(target_price),
     triggered    |-> FALSE,
     triggered_at |-> NoTime]

\* check_trigger with strict thresholds: a price equal to the target does not
\* fire.
check_trigger_strict(self, current_price, t) ==
    IF self.triggered
    THEN [alert |-> self, fired |-> FALSE]
    ELSE IF self.alert_type = "above" /\ FLt(self.target_price, current_price)
    THEN [alert |-> [self EXCEPT !.triggered = TRUE, !.triggered_at = t], fired |-> TRUE]
    ELSE IF self.alert_type = "below" /\ FLt(current_price, self.target_price)
    THEN [alert |-> [self EXCEPT !.triggered = TRUE, !.triggered_at = t], fired |-> TRUE]
    ELSE [alert |-> self, fired |-> FALSE]

\* check_trigger without the early return for an alert that has already
\* triggered.
check_trigger_again(self, current_price, t) ==
    IF self.alert_type = "above" /\ FLe(self.target_price, current_price)
    THEN [alert |-> [self EXCEPT !.triggered = TRUE, !.triggered_at = t], fired |-> TRUE]
    ELSE IF self.alert_type = "below" /\ FLe(current_price, self.target_price)
    THEN [alert |-> [self EXCEPT !.triggered = TRUE, !.triggered_at = t], fired |-> TRUE]
    ELSE [alert |-> self, fired |-> FALSE]

\* PriceAlert.check_trigger at time t: the alert after the call and the
\* returned boolean.
check_trigger(self, current_price, t) ==
    IF self.triggered
    THEN [alert |-> self, fired |-> FALSE]
    ELSE IF self.alert_type = "above" /\ FLe(self.target_price, current_price)
    THEN [alert |-> [self EXCEPT !.triggered = TRUE, !.triggered_at = t], fired |-> TRUE]
    ELSE IF self.alert_type = "below" /\ FLe(current_price, self.target_price)
    THEN [alert |-> [self EXCEPT !.triggered = TRUE, !.triggered_at = t], fired |-> TRUE]
    ELSE [alert |-> self, fired |-> FALSE]

\* AlertManager.add_alert
add_alert(list, id, ticker, alert_type, target_price) ==
    Append(list, PriceAlert(id, ticker, alert_type, target_price))

\* remove_alert without the lower bound check: as del does, a negative index
\* counts from the end of the list.
remove_alert_from_end(list, index) ==
    LET k == IF index < 0 THEN index + Len(list) ELSE index
    IN  IF 0 <= k /\ k < Len(list)
        THEN SubSeq(list, 1, k) \o SubSeq(list, k + 2, Len(list))
        ELSE list

\* AlertManager.remove_alert
remove_alert(list, index) ==
    IF 0 <= index /\ index < Len(list)
    THEN SubSeq(list, 1, index) \o SubSeq(list, index + 2, Len(list))
    ELSE list

\* The tickers of all the alerts, triggered ones included.
all_tickers(list) == {list[i].ticker : i \in 1..Len(list)}

\* set(alert.ticker for alert in self.alerts if not alert.triggered)
untriggered_tickers(list) ==
    {list[i].ticker : i \in {j \in 1..Len(list) : ~list[j].triggered}}

\* The loop of check_all_alerts over self.alerts, from alert number i on:
\* the list after the loop and the triggered_alerts collected.
RECURSIVE check_each(_, _, _, _, _)
check_each(list, prices, t, i, triggered_alerts) ==
    IF i > Len(list)
    THEN [alerts |-> list, triggered_alerts |-> triggered_alerts]
    ELSE IF ~list[i].triggered /\ list[i].ticker \in DOMAIN prices
    THEN LET c == check_trigger(list[i], prices[list[i].ticker], t)
         IN  check_each([list EXCEPT ![i] = c.alert], prices, t, i + 1,
                        IF c.fired THEN Append(triggered_alerts, c.alert)
                                   ELSE triggered_alerts)
    ELSE check_each(list, prices, t, i + 1, triggered_alerts)

\* check_all_alerts that returns every triggered alert of the list, not only
\* those this call triggered.
check_all_alerts_all_triggered(list, tickers, quotes, t) ==
    IF tickers = << >>
    THEN [alerts |-> list, triggered_alerts |-> << >>]
    ELSE LET r == check_each(list, get_multiple_prices(tickers, quotes), t, 1, << >>)
         IN  [alerts |-> r.alerts,
              triggered_alerts |-> SelectSeq(r.alerts, LAMBDA a : a.triggered)]

\* AlertManager.check_all_alerts at time t: tickers is list(set(...)) in the
\* order the set gives, quotes[u] the price service's answer for ticker u.
check_all_alerts(list, tickers, quotes, t) ==
    IF tickers = << >>
    THEN [alerts |-> list, triggered_alerts |-> << >>]
    ELSE check_each(list, get_multiple_prices(tickers, quotes), t, 1, << >>)

\* The tickers check_all_alerts asks the price service for.
alert_requests(tickers) == tickers

\* AlertManager.get_active_alerts
get_active_alerts(list) == SelectSeq(list, LAMBDA a : ~a.triggered)

\* AlertManager.get_triggered_alerts
get_triggered_alerts(list) == SelectSeq(list, LAMBDA a : a.triggered)

\* AlertManager.clear_triggered_alerts
clear_triggered_alerts(list) == SelectSeq(list, LAMBDA a : ~a.triggered)

--------------------------------------------------------------------------
(* Resampling: resample_data_to_timeframe (src/data_fetcher.py) *)

\* A date is a day number counted from Monday 2024-01-01 (day 0).  The
\* lengths of the months of 2024 and 2025:
MonthLengths ==
    <<31, 29, 31, 30, 31, 30, 31, 31, 30, 31, 30, 31,
      31, 28, 31, 30, 31, 30, 31, 31, 30, 31, 30, 31>>

\* The first day of month m (months are numbered on from January 2024 = 1).
RECURSIVE month_start(_)
month_start(m) == IF m = 1 THEN 0 ELSE month_start(m - 1) + MonthLengths[m - 1]

\* The month a day falls in, and the last day of a month.
month(n) == CHOOSE m \in 1..Len(MonthLengths) : month_start(m) <= n /\ n < month_start(m) + MonthLengths[m]

month_end(m) == month_start(m) + MonthLengths[m] - 1

\* 'W-FRI': the Friday that ends the week of day n (n % 7 = 4 is a Friday).
week_end(n) == n + ((11 - (n % 7)) % 7)

\* NaN, pandas' missing value.
NaN == [n |-> 0, d |-> 0]

\* freq_map: the timeframes resample_data_to_timeframe maps to a frequency.
freq_map == {"1W", "1M", "3M"}

\* The label (right edge) of the period that data.resample(freq) puts a bar of
\* day n in, for a frame whose first bar is on day first: the week's Friday,
\* the month's last day, or the last day of the three-month bin, where the
\* bins are counted from the month of the first bar.
period_label(timeframe, first, n) ==
    IF timeframe = "1W" THEN week_end(n)
    ELSE IF timeframe = "1M" THEN month_end(month(n))
    ELSE month_end(month(first) + 3 * ((month(n) - month(first) + 2) \div 3))

\* The labels of all the periods from the first bar's to the last bar's,
\* those without a bar included.
period_labels(timeframe, bars) ==
    LET first == bars[1].date
        last == bars[Len(bars)].date
    IN  IF timeframe = "1W"
        THEN {l \in week_end(first)..week_end(last) : (l - week_end(first)) % 7 = 0}
        ELSE IF timeframe = "1M"
        THEN {month_end(m) : m \in month(first)..month(last)}
        ELSE {month_end(month(first) + 3 * k) :
                 k \in 0..((month(last) - month(first) + 2) \div 3)}

\* The bars of one period, in order.
period_bars(timeframe, bars, label) ==
    SelectSeq(bars, LAMBDA b : period_label(timeframe, bars[1].date, b.date) = label)

\* max, min and sum over the bars of a period.
RECURSIVE agg_max(_, _)
agg_max(xs, i) ==
    IF i = Len(xs) THEN xs[i]
    ELSE LET m == agg_max(xs, i + 1) IN IF FLt(xs[i], m) THEN m ELSE xs[i]

RECURSIVE agg_min(_, _)
agg_min(xs, i) ==
    IF i = Len(xs) THEN xs[i]
    ELSE LET m == agg_min(xs, i + 1) IN IF FLt(m, xs[i]) THEN m ELSE xs[i]

RECURSIVE agg_sum(_, _)
agg_sum(xs, i) == IF i > Len(xs) THEN 0 ELSE xs[i] + agg_sum(xs, i + 1)

\* .agg(agg_dict) on one period: first Open, max High, min Low, last Close,
\* summed Volume; a period without bars gives NaN prices and Volume 0.
agg(label, bs) ==
    IF bs = << >>
    THEN [date |-> label, Open |-> NaN, High |-> NaN, Low |-> NaN, Close |-> NaN,
          Volume |-> 0]
    ELSE [date   |-> label,
          Open   |-> bs[1].Open,
          High   |-> agg_max([i \in 1..Len(bs) |-> bs[i].High], 1),
          Low    |-> agg_min([i \in 1..Len(bs) |-> bs[i].Low], 1),
          Close  |-> bs[Len(bs)].Close,
          Volume |-> agg_sum([i \in 1..Len(bs) |-> bs[i].Volume], 1)]

\* The elements of a set of day numbers in increasing order.
RECURSIVE sorted(_)
sorted(S) ==
    IF S = {} THEN << >>
    ELSE LET least == CHOOSE x \in S : \A y \in S : x <= y
         IN  <<least>> \o sorted(S \ {least})

\* data.resample(freq).agg(agg_dict): one row per period, in date order.
resample_agg(timeframe, bars) ==
    IF bars = << >> THEN << >>
    ELSE LET labels == sorted(period_labels(timeframe, bars))
         IN  [i \in 1..Len(labels) |-> agg(labels[i], period_bars(timeframe, bars, labels[i]))]

\* .dropna(): the rows without a NaN.
dropna(rows) ==
    SelectSeq(rows, LAMBDA r : r.Open # NaN /\ r.High # NaN /\ r.Low # NaN /\ r.Close # NaN)

\* resample_data_to_timeframe without the early return for '1D': the daily
\* timeframe goes through the weekly aggregation.
resample_daily_as_weekly(data, timeframe) ==
    IF timeframe \notin freq_map \cup {"1D"}
    THEN [value |-> data, shown |-> <<[kind |-> "warning", text |-> "Unsupported timeframe"]>>]
    ELSE IF ~data.datetime_index
    THEN [value |-> data, shown |-> <<[kind |-> "error", text |-> "Error resampling data"]>>]
    ELSE [value |-> [data EXCEPT !.bars =
                        dropna(resample_agg(IF timeframe = "1D" THEN "1W" ELSE timeframe,
                                            data.bars))],
          shown |-> << >>]

\* What resample_data_to_timeframe gives back: the frame returned and what it
\* showed on the page with st.warning / st.error.  data is a frame: its bars
\* in date order and whether its index is a DatetimeIndex (resample raises a
\* TypeError on any other index).
resample_data_to_timeframe(data, timeframe) ==
    IF timeframe = "1D"
    THEN [value |-> data, shown |-> << >>]
    ELSE IF timeframe \notin freq_map
    THEN [value |-> data, shown |-> <<[kind |-> "warning", text |-> "Unsupported timeframe"]>>]
    ELSE IF ~data.datetime_index
    THEN [value |-> data, shown |-> <<[kind |-> "error", text |-> "Error resampling data"]>>]
    ELSE [value |-> [data EXCEPT !.bars = dropna(resample_agg(timeframe, data.bars))],
          shown |-> << >>]

--------------------------------------------------------------------------
(* Technical indicators (src/indicators.py) *)

\* inf, what a positive float divided by 0.0 gives.
Inf == [n |-> 1, d |-> 0]

\* prices.diff(): NaN at the first bar, then the change from the bar before.
diff(prices) ==
    [i \in 1..Len(prices) |-> IF i = 1 THEN NaN ELSE FSub(prices[i], prices[i - 1])]

\* delta.clip(lower=0) and -delta.clip(upper=0); NaN stays NaN.
clip_lower(x) == IF x = NaN THEN NaN ELSE IF FLt(x, float(0)) THEN float(0) ELSE x

neg_clip_upper(x) == IF x = NaN THEN NaN ELSE IF FLt(float(0), x) THEN float(0) ELSE FSub(float(0), x)

\* series.ewm(alpha=1/period, adjust=False).mean() at bar i: NaN while the
\* series is NaN, the first value itself, then
\* (1 - alpha) * previous + alpha * value.
RECURSIVE ewm_mean(_, _, _)
ewm_mean(xs, period, i) ==
    IF i = 0 THEN NaN
    ELSE LET previous == ewm_mean(xs, period, i - 1)
         IN  IF xs[i] = NaN THEN previous
             ELSE IF previous = NaN THEN xs[i]
             ELSE FAdd(FMul(Rat(period - 1, period), previous), FMul(Rat(1, period), xs[i]))

\* Float division of two values that are not negative: NaN for 0/0 and for a
\* NaN operand, inf for a positive value over 0.
true_divide(a, b) ==
    IF a = NaN \/ b = NaN THEN NaN
    ELSE IF b = float(0) THEN (IF a = float(0) THEN NaN ELSE Inf)
    ELSE FDiv(a, b)

\* 100 - (100 / (1 + rs))
rsi_of(rs) ==
    IF rs = NaN THEN NaN
    ELSE IF rs = Inf THEN float(100)
    ELSE FSub(float(100), FDiv(float(100), FAdd(float(1), rs)))

\* calculate_rsi
calculate_rsi(prices, period) ==
    LET delta == diff(prices)
        gain == [i \in 1..Len(prices) |-> clip_lower(delta[i])]
        loss == [i \in 1..Len(prices) |-> neg_clip_upper(delta[i])]
    IN  [i \in 1..Len(prices) |->
            rsi_of(true_divide(ewm_mean(gain, period, i), ewm_mean(loss, period, i)))]

\* The sum of xs[i..j].
RECURSIVE window_sum(_, _, _)
window_sum(xs, i, j) ==
    IF i > j THEN float(0)
    ELSE IF i = j THEN xs[i]
    ELSE FAdd(window_sum(xs, i, (i + j) \div 2), window_sum(xs, (i + j) \div 2 + 1, j))

\* prices.rolling(window=window).mean(): NaN until the window is full.
rolling_mean(prices, window) ==
    [i \in 1..Len(prices) |->
        IF i < window THEN NaN
        ELSE FDiv(window_sum(prices, i - window + 1, i), float(window))]

\* calculate_moving_average
calculate_moving_average(prices, window) == rolling_mean(prices, window)

\* The sum of the squares of xs[first..last].
RECURSIVE squares_sum(_, _, _)
squares_sum(xs, first, last) ==
    IF first > last THEN float(0)
    ELSE IF first = last THEN FMul(xs[first], xs[first])
    ELSE FAdd(squares_sum(xs, first, (first + last) \div 2),
              squares_sum(xs, (first + last) \div 2 + 1, last))

\* The variance of the window that ends at bar last, with the divisor
\* window - 1 (ddof = 1): (sum of squares - (sum)^2 / window) / (window - 1).
rolling_var(prices, window, last) ==
    FDiv(FSub(squares_sum(prices, last - window + 1, last),
              FDiv(FMul(window_sum(prices, last - window + 1, last),
                        window_sum(prices, last - window + 1, last)),
                   float(window))),
         float(window - 1))

\* prices.rolling(window=window).std(): the square root is kept as the
\* variance it is the root of (std = sqrt(var)); NaN until the window is
\* full and for a window of one bar.
rolling_std(prices, window) ==
    [i \in 1..Len(prices) |->
        IF i < window \/ window < 2 THEN NaN
        ELSE [sqrt_of |-> rolling_var(prices, window, i)]]

\* sma + (std * num_std) and sma - (std * num_std), kept as the terms of the
\* sum (sign is 1 or -1); NaN when a term is NaN.
band(mean, deviation, num_std, sign) ==
    IF mean = NaN \/ deviation = NaN THEN NaN
    ELSE [mid |-> mean, sign |-> sign, num_std |-> num_std, std |-> deviation]

\* calculate_bollinger_bands
calculate_bollinger_bands(prices, window, num_std) ==
    LET sma == rolling_mean(prices, window)
        std == rolling_std(prices, window)
    IN  [sma |-> sma,
         upper_band |-> [i \in 1..Len(prices) |-> band(sma[i], std[i], num_std, 1)],
         lower_band |-> [i \in 1..Len(prices) |-> band(sma[i], std[i], num_std, -1)]]

\* The default parameters of add_all_indicators.
default_params ==
    [ma_short_period |-> 20, ma_long_period |-> 50, rsi_period |-> 14,
     bb_period |-> 20, bb_std |-> float(2)]

\* f'MA{period}' and f'RSI{period}'
MA_column(period) == "MA" \o ToString(period)

RSI_column(period) == "RSI" \o ToString(period)

\* data[name]: the column last assigned under name, or the input's column.
column_of(data, assigned, name) ==
    IF \E k \in 1..Len(assigned) : assigned[k].name = name
    THEN assigned[CHOOSE k \in 1..Len(assigned) :
                    /\ assigned[k].name = name
                    /\ \A j \in (k + 1)..Len(assigned) : assigned[j].name # name].series
    ELSE data[name]

\* The frame after the assignments data[name] = series were made in order.
assign_columns(data, assigned) ==
    [c \in DOMAIN data \cup {assigned[k].name : k \in 1..Len(assigned)} |->
        column_of(data, assigned, c)]

\* add_all_indicators: the copy of data (a dict of columns) after the
\* assignments of the indicator columns, made in the order of the code; the
\* last two read the columns MA<short> and RSI<rsi> as they are by then.
add_all_indicators(data, given) ==
    LET params == IF given = None THEN default_params ELSE given
        close == data["Close"]
        bb == calculate_bollinger_bands(close, params.bb_period, params.bb_std)
        indicators ==
            <<[name |-> MA_column(params.ma_short_period),
               series |-> calculate_moving_average(close, params.ma_short_period)],
              [name |-> MA_column(params.ma_long_period),
               series |-> calculate_moving_average(close, params.ma_long_period)],
              [name |-> RSI_column(params.rsi_period),
               series |-> calculate_rsi(close, params.rsi_period)],
              [name |-> "BB_Mid", series |-> bb.sma],
              [name |-> "BB_Upper", series |-> bb.upper_band],
              [name |-> "BB_Lower", series |-> bb.lower_band]>>
        with_ma20 ==
            Append(indicators,
                   [name |-> "MA20",
                    series |-> column_of(data, indicators, MA_column(params.ma_short_period))])
        with_rsi14 ==
            Append(with_ma20,
                   [name |-> "RSI14",
                    series |-> column_of(data, with_ma20, RSI_column(params.rsi_period))])
    IN  assign_columns(data, with_rsi14)

--------------------------------------------------------------------------
(* The dashboard page: one run of main (src/fromscratch.py) *)

\* validate_ticker: not empty and at most 10 characters (the tickers of the
\* model have letters only, so the isalnum() test passes).
validate_ticker(ticker) == ticker # "" /\ Len(ticker) <= 10

\* The timeframe buttons: the code of each and its description.
timeframes == [c \in {"1D", "1W", "1M", "3M"} |->
                 CASE c = "1D" -> "Daily"
                   [] c = "1W" -> "Weekly"
                   [] c = "1M" -> "Monthly"
                   [] c = "3M" -> "Quarterly"]

\* fetch_stock_data_with_timeframe(ticker, timeframe, period='2y'): the
\* series of the ticker at the timeframe, known here by whose it is, or None
\* when the download gives nothing (found says which).
fetch_stock_data_with_timeframe(ticker, timeframe, found) ==
    IF found THEN [ticker |-> ticker, timeframe |-> timeframe] ELSE None

\* add_all_indicators(data, indicator_params) on such a series: the series
\* with the indicator columns computed with these parameters.
data_with_indicators(data, indicator_params) ==
    [data |-> data, indicator_params |-> indicator_params]

\* for key in [...]: if key in st.session_state: del st.session_state[key]
clear_keys(state, keys) == [k \in DOMAIN state \ keys |-> state[k]]

\* The part of main from "Stock Selection" to st.stop(): the ticker of the
\* run is the watchlist's selection when there is one (the selection is
\* deleted and a fetch is due), and the text box's content otherwise.
run_ticker(state, text) ==
    IF "selected_ticker" \in DOMAIN state THEN state["selected_ticker"] ELSE text

\* The timeframe buttons: the pressed one stores its code and description,
\* deletes 'stock_data', and a fetch is due.
press_timeframe(state, pressed) ==
    IF pressed \in DOMAIN timeframes
    THEN clear_keys(dict_set(dict_set(state, "selected_timeframe", pressed),
                             "selected_timeframe_desc", timeframes[pressed]),
                    {"stock_data"})
    ELSE state

\* The timeframe of the run: the stored one, or "1D".
run_timeframe(state) ==
    IF "selected_timeframe" \in DOMAIN state THEN state["selected_timeframe"] ELSE "1D"

\* The main area: fetch when a fetch is due (a failed fetch clears the keys,
\* a successful one stores the series, the ticker and the parameters);
\* otherwise, when the parameters differ from the stored ones and a series
\* is held, fetch again for the ticker of the run and store the series and
\* the parameters; then store the display options.
main_area(state, ticker, timeframe_changed, indicator_params, found) ==
    LET params_changed ==
            /\ "indicator_params" \in DOMAIN state
            /\ state["indicator_params"] # indicator_params
        series == fetch_stock_data_with_timeframe(ticker, run_timeframe(state), found)
        stored ==
            IF timeframe_changed
            THEN IF series = None
                 THEN clear_keys(state, {"stock_data", "current_ticker",
                                         "indicator_params", "display_options"})
                 ELSE dict_set(dict_set(dict_set(state,
                          "stock_data", data_with_indicators(series, indicator_params)),
                          "current_ticker", ticker),
                          "indicator_params", indicator_params)
            ELSE IF params_changed /\ "stock_data" \in DOMAIN state
            THEN IF series # None
                 THEN dict_set(dict_set(state,
                          "stock_data", data_with_indicators(series, indicator_params)),
                          "indicator_params", indicator_params)
                 ELSE state
            ELSE state
    IN  dict_set(stored, "display_options", "shown")

\* One run of main: st.session_state at the end of the run.  text is the
\* content of the ticker box, pressed the button that started the run
\* ("fetch", a timeframe code, or "none" for any other widget), and
\* indicator_params the values of the sliders.  The theme and the watchlist
\* keys are left out.
main(state, text, pressed, indicator_params, found) ==
    LET ticker == run_ticker(state, text)
        selected == "selected_ticker" \in DOMAIN state
        after_selection == clear_keys(state, {"selected_ticker"})
    IN  IF ~validate_ticker(ticker) THEN after_selection
        ELSE main_area(press_timeframe(after_selection, pressed), ticker,
                       selected \/ pressed = "fetch" \/ pressed \in DOMAIN timeframes,
                       indicator_params, found)

--------------------------------------------------------------------------
(* The state machine *)

\* What callers may pass as price: an explicit price, or None.
PriceArgs == {float(p) : p \in PriceValues} \cup {None}

\* What RealtimePriceService.get_live_price may return: a quote's price, or
\* None (empty history, or an exception caught inside the service).
get_live_price == {float(p) : p \in PriceValues} \cup {None}

\* The empty dict {}.
EmptyDict == [t \in {} |-> Position(t)]

\* No call is running and no return value is pending.
NoCall ==
    [op |-> "none", ticker |-> "", trade_type |-> "", quantity |-> 0,
     price |-> None, live |-> None]

NoResult == [ok |-> TRUE, msg |-> ""]

\* AlertManager.__init__
AlertInit ==
    /\ alerts = << >>
    /\ now = 0

\* st.session_state of a new browser session, before the first run of the
\* page: none of the page's keys is held.
EmptySession == [key \in {} |-> None]

\* PaperTradingAccount.__init__ and AlertManager.__init__: the session's two
\* objects as constructed, and the empty session state.
Init ==
    /\ initial_balance \in {float(b) : b \in InitialBalances}
    /\ cash_balance = initial_balance
    /\ positions = EmptyDict
    /\ trade_history = << >>
    /\ call = NoCall
    /\ result = NoResult
    /\ requests = << >>
    /\ AlertInit
    /\ session_state = EmptySession

\* One call of execute_trade, from entry to return.  live is what the price
\* service answers; it is consulted only when price is None.
ExecuteTrade(ticker, trade_type, quantity, price, live) ==
    /\ call = NoCall
    /\ price # None => live = None
    /\ \E r \in {execute_trade(cash_balance, positions, trade_history,
                               ticker, trade_type, quantity, price, live, now)} :
        /\ r.ok => Len(trade_history) < MaxTrades
        /\ cash_balance' = r.cash_balance
        /\ positions' = r.positions
        /\ trade_history' = r.trade_history
        /\ result' = [ok |-> r.ok, msg |-> r.msg]
    /\ call' = [op |-> "execute_trade", ticker |-> ticker, trade_type |-> trade_type,
                quantity |-> quantity, price |-> price, live |-> live]
    /\ requests' = live_price_requests(ticker, price)
    /\ UNCHANGED <<initial_balance, session_state, alertVars>>

\* reset_account that restores the cash and the history but keeps the
\* positions dict.
ResetAccount_keeps_positions ==
    /\ call = NoCall
    /\ cash_balance' = initial_balance
    /\ trade_history' = << >>
    /\ call' = [NoCall EXCEPT !.op = "reset_account"]
    /\ result' = NoResult
    /\ requests' = << >>
    /\ UNCHANGED <<initial_balance, session_state, positions, alertVars>>

\* reset_account that restores the cash and the positions but keeps the
\* trade history.
ResetAccount_keeps_history ==
    /\ call = NoCall
    /\ cash_balance' = initial_balance
    /\ positions' = EmptyDict
    /\ call' = [NoCall EXCEPT !.op = "reset_account"]
    /\ result' = NoResult
    /\ requests' = << >>
    /\ UNCHANGED <<initial_balance, session_state, trade_history, alertVars>>

\* PaperTradingAccount.reset_account
ResetAccount ==
    /\ call = NoCall
    /\ cash_balance' = initial_balance
    /\ positions' = EmptyDict
    /\ trade_history' = << >>
    /\ call' = [NoCall EXCEPT !.op = "reset_account"]
    /\ result' = NoResult
    /\ requests' = << >>
    /\ UNCHANGED <<initial_balance, session_state, alertVars>>

\* The caller has used what the call returned (the page shows it and the
\* script run ends); the account and the alerts are as the call left them.
Return ==
    /\ call # NoCall
    /\ call' = NoCall
    /\ result' = NoResult
    /\ requests' = << >>
    /\ UNCHANGED <<initial_balance, session_state, ledger, alertVars>>

\* One call of get_portfolio_value.  tickers is the dict's iteration order and
\* quotes[t] the price service's answer for ticker t.
GetPortfolioValue(tickers, quotes) ==
    /\ call = NoCall
    /\ call' = [NoCall EXCEPT !.op = "get_portfolio_value", !.live = quotes]
    /\ result' = [ok |-> TRUE, msg |-> "",
                  value |-> get_portfolio_value(cash_balance, positions, tickers, quotes)]
    /\ requests' = valuation_requests(tickers)
    /\ UNCHANGED <<initial_balance, session_state, ledger, alertVars>>

\* One call of get_positions_df.
GetPositionsDf(tickers, quotes) ==
    /\ call = NoCall
    /\ call' = [NoCall EXCEPT !.op = "get_positions_df", !.live = quotes]
    /\ result' = [ok |-> TRUE, msg |-> "",
                  value |-> get_positions_df(positions, tickers, quotes)]
    /\ requests' = valuation_requests(tickers)
    /\ UNCHANGED <<initial_balance, session_state, ledger, alertVars>>

Next ==
    \/ \E ticker \in RawTickers, trade_type \in TradeTypes, quantity \in Quantities,
          price \in PriceArgs, live \in get_live_price :
            ExecuteTrade(ticker, trade_type, quantity, price, live)
    \/ ResetAccount
    \/ \E tickers \in Orders(DOMAIN positions), quotes \in [DOMAIN positions -> get_live_price] :
            GetPortfolioValue(tickers, quotes)
    \/ \E tickers \in Orders(DOMAIN positions), quotes \in [DOMAIN positions -> get_live_price] :
            GetPositionsDf(tickers, quotes)
    \/ Return

--------------------------------------------------------------------------
(* The state machine of the alert manager *)

\* What realtime_service.get_live_price can answer for an alert's ticker: a
\* positive price, or None.
alert_quotes == {float(p) : p \in AlertPrices} \cup {None}

\* The identities of the PriceAlert objects in the managed list.
AlertIds == {alerts[i].id : i \in 1..Len(alerts)}

\* The identity a new PriceAlert gets: one no live object has (as with
\* Python's objects, the identity of a deleted alert is free again).
FreeIds == (1..MaxAlerts) \ AlertIds

\* One call of add_alert.
AddAlert(id, ticker, alert_type, target_price) ==
    /\ call = NoCall
    /\ alerts' = add_alert(alerts, id, ticker, alert_type, target_price)
    /\ call' = [op |-> "add_alert", ticker |-> ticker, alert_type |-> alert_type,
                target_price |-> target_price]
    /\ result' = [ok |-> TRUE, msg |-> "", value |-> alerts'[Len(alerts')]]
    /\ requests' = << >>
    /\ UNCHANGED <<now, initial_balance, session_state, ledger>>

\* One call of remove_alert.
RemoveAlert(index) ==
    /\ call = NoCall
    /\ alerts' = remove_alert(alerts, index)
    /\ call' = [op |-> "remove_alert", index |-> index]
    /\ result' = NoResult
    /\ requests' = << >>
    /\ UNCHANGED <<now, initial_balance, session_state, ledger>>

\* One call of check_all_alerts.
CheckAllAlerts(tickers, quotes) ==
    /\ call = NoCall
    /\ \E r \in {check_all_alerts(alerts, tickers, quotes, now)} :
        /\ alerts' = r.alerts
        /\ result' = [ok |-> TRUE, msg |-> "", value |-> r.triggered_alerts]
    /\ call' = [op |-> "check_all_alerts", live |-> quotes]
    /\ requests' = alert_requests(tickers)
    /\ UNCHANGED <<now, initial_balance, session_state, ledger>>

\* One call of check_trigger on the alert at position i of the list (a call
\* on the PriceAlert object itself, not through the manager).
CheckTrigger(i, current_price) ==
    /\ call = NoCall
    /\ i \in 1..Len(alerts)
    /\ \E c \in {check_trigger(alerts[i], current_price, now)} :
        /\ alerts' = [alerts EXCEPT ![i] = c.alert]
        /\ result' = [ok |-> TRUE, msg |-> "", value |-> c.fired]
    /\ call' = [op |-> "check_trigger", id |-> alerts[i].id, price |-> current_price]
    /\ requests' = << >>
    /\ UNCHANGED <<now, initial_balance, session_state, ledger>>

\* One call of clear_triggered_alerts.
ClearTriggeredAlerts ==
    /\ call = NoCall
    /\ alerts' = clear_triggered_alerts(alerts)
    /\ call' = [op |-> "clear_triggered_alerts"]
    /\ result' = NoResult
    /\ requests' = << >>
    /\ UNCHANGED <<now, initial_balance, session_state, ledger>>

\* Time passes between two calls.
Tick ==
    /\ call = NoCall
    /\ now < MaxClock
    /\ now' = now + 1
    /\ UNCHANGED <<alerts, call, result, requests, initial_balance, session_state, ledger>>

\* The wall clock is set back between two calls (datetime.now() reads the
\* local wall clock, which an adjustment or the end of daylight saving time
\* moves backwards).
SetClockBack ==
    /\ call = NoCall
    /\ now > 0
    /\ now' \in 0..(now - 1)
    /\ UNCHANGED <<alerts, call, result, requests, initial_balance, session_state, ledger>>

\* One call of get_trade_history_df.
GetTradeHistoryDf ==
    /\ call = NoCall
    /\ call' = [NoCall EXCEPT !.op = "get_trade_history_df"]
    /\ \E df \in get_trade_history_df(trade_history) :
            result' = [ok |-> TRUE, msg |-> "", value |-> df]
    /\ requests' = << >>
    /\ UNCHANGED <<initial_balance, session_state, ledger, alertVars>>

\* The account with its clock: trades, resets, exports of the history, and
\* the passing and the adjustment of time between calls.
HistoryNext ==
    \/ \E ticker \in RawTickers, trade_type \in TradeTypes, quantity \in Quantities,
          price \in PriceArgs, live \in get_live_price :
            ExecuteTrade(ticker, trade_type, quantity, price, live)
    \/ ResetAccount
    \/ GetTradeHistoryDf
    \/ Tick
    \/ SetClockBack
    \/ Return

HistorySpec == Init /\ [][HistoryNext]_vars

AlertNext ==
    \/ \E id \in FreeIds, ticker \in AlertTickers, alert_type \in AlertTypes,
          target_price \in AlertTargets :
            AddAlert(id, ticker, alert_type, target_price)
    \/ \E index \in Indices : RemoveAlert(index)
    \/ \E tickers \in Orders(untriggered_tickers(alerts)),
          quotes \in [untriggered_tickers(alerts) -> alert_quotes] :
            CheckAllAlerts(tickers, quotes)
    \/ \E i \in 1..MaxAlerts, current_price \in alert_quotes \ {None} :
            CheckTrigger(i, current_price)
    \/ ClearTriggeredAlerts
    \/ Tick
    \/ Return

\* The alert manager's specification; the account stays as constructed.
AlertSpec == Init /\ [][AlertNext]_vars

\* The ledger's specification; the alert manager is not used in it.
Spec == Init /\ [][Next]_vars

\* The Delete button the page shows next to the alert at position i of
\* get_active_alerts() (i counts from 0, as enumerate does): the handler
\* calls remove_alert(i).  shown is the id of the alert the button is next to.
DeleteButton(i) ==
    /\ call = NoCall
    /\ i < Len(get_active_alerts(alerts))
    /\ alerts' = remove_alert(alerts, i)
    /\ call' = [op |-> "delete_button", index |-> i,
                shown |-> get_active_alerts(alerts)[i + 1].id]
    /\ result' = NoResult
    /\ requests' = << >>
    /\ UNCHANGED <<now, initial_balance, session_state, ledger>>

\* The alert manager under its page: the manager's operations, and the
\* Delete buttons of the active alerts.
AlertPageNext ==
    \/ AlertNext
    \/ \E i \in 0..(MaxAlerts - 1) : DeleteButton(i)

AlertPageSpec == Init /\ [][AlertPageNext]_vars

--------------------------------------------------------------------------
(* The state machine of the resampler *)

\* Days a daily frame can have a bar on: Thursday 4 and Friday 5 January,
\* Monday 8 January, Thursday 1 February and Monday 1 April 2024.
Days == {3, 4, 7, 31, 91}

\* Bars a day can have (low <= open, close <= high).
BarShapes ==
    {[Open |-> float(2), High |-> float(3), Low |-> float(1), Close |-> float(2), Volume |-> 1],
     [Open |-> float(1), High |-> float(2), Low |-> float(1), Close |-> float(1), Volume |-> 2]}

\* Timeframes callers pass: the four of the sidebar and two others.
Timeframes == {"1D", "1W", "1M", "3M", "1H", ""}

\* The daily frame with the bars shape[n] on the days n of S.
frame(S, shape, datetime_index) ==
    [bars |-> LET ds == sorted(S)
              IN  [i \in 1..Len(ds) |->
                      [date |-> ds[i], Open |-> shape[ds[i]].Open, High |-> shape[ds[i]].High,
                       Low |-> shape[ds[i]].Low, Close |-> shape[ds[i]].Close,
                       Volume |-> shape[ds[i]].Volume]],
     datetime_index |-> datetime_index]

\* One call of resample_data_to_timeframe.
Resample(data, timeframe) ==
    /\ call = NoCall
    /\ call' = [op |-> "resample_data_to_timeframe", data |-> data, timeframe |-> timeframe]
    /\ \E r \in {resample_data_to_timeframe(data, timeframe)} :
        result' = [ok |-> TRUE, msg |-> "", value |-> r.value, shown |-> r.shown]
    /\ requests' = << >>
    /\ UNCHANGED <<initial_balance, session_state, ledger, alertVars>>

ResampleNext ==
    \/ \E S \in SUBSET Days, timeframe \in Timeframes, datetime_index \in BOOLEAN :
        \E shape \in [S -> BarShapes] :
            Resample(frame(S, shape, datetime_index), timeframe)
    \/ Return

\* The resampler's specification; the account and the alerts stay as
\* constructed.
ResampleSpec == Init /\ [][ResampleNext]_vars

--------------------------------------------------------------------------
(* The state machine of the indicators *)

\* Bars at the start of a Close series during which the price stays at
\* FlatPrice; the bars after them take the prices of a tail.
FlatBars == 17

\* Closing prices.
ClosePrices == {1, 2, 3}

FlatPrice == CHOOSE p \in ClosePrices : \E q, r \in ClosePrices : q < p /\ p < r

\* The bars after the flat ones: the series has one bar more than the
\* default Bollinger window, so that the last two bars have a full 20-bar
\* window and the denominators of the smoothed averages stay within 32 bits.
TailBars == default_params.bb_period + 1 - FlatBars

\* The parameter sets callers pass to add_all_indicators: the slider values
\* of the page (the short period from 5 to 50, the long one from 20 to 200),
\* or None.
ParamSets ==
    {[ma_short_period |-> s, ma_long_period |-> l, rsi_period |-> r,
      bb_period |-> 20, bb_std |-> float(2)] :
        s \in {5, 20}, l \in {20, 50}, r \in {5, 14}} \cup {None}

\* Periods callers pass to calculate_rsi, and the lengths of the series.
RsiPeriods == {2, 14}

RsiBars == 1..4

\* The Close series that is flat for FlatBars bars and then follows tail.
close_series(tail) ==
    [i \in 1..(FlatBars + Len(tail)) |->
        float(IF i <= FlatBars THEN FlatPrice ELSE tail[i - FlatBars])]

\* One call of add_all_indicators.
AddAllIndicators(data, params) ==
    /\ call = NoCall
    /\ call' = [op |-> "add_all_indicators", data |-> data, params |-> params]
    /\ result' = [ok |-> TRUE, msg |-> "", value |-> add_all_indicators(data, params)]
    /\ requests' = << >>
    /\ UNCHANGED <<initial_balance, session_state, ledger, alertVars>>

\* One call of calculate_rsi.
CalculateRsi(prices, period) ==
    /\ call = NoCall
    /\ call' = [op |-> "calculate_rsi", prices |-> prices, period |-> period]
    /\ result' = [ok |-> TRUE, msg |-> "", value |-> calculate_rsi(prices, period)]
    /\ requests' = << >>
    /\ UNCHANGED <<initial_balance, session_state, ledger, alertVars>>

IndicatorNext ==
    \/ \E tail \in [1..TailBars -> ClosePrices], params \in ParamSets :
        AddAllIndicators([c \in {"Close"} |-> close_series(tail)], params)
    \/ \E len \in RsiBars, period \in RsiPeriods :
        \E prices \in [1..len -> {float(p) : p \in ClosePrices}] :
            CalculateRsi(prices, period)
    \/ Return

\* The indicators' specification; the account and the alerts stay as
\* constructed.
IndicatorSpec == Init /\ [][IndicatorNext]_vars

--------------------------------------------------------------------------
(* The state machine of the dashboard page *)

\* What the ticker box may hold: two symbols, nothing, and a text that is
\* too long.
PageTickers == {"AAPL", "MSFT", "", "ABCDEFGHIJK"}

\* Stocks of the watchlist.
Watchlist == {"AAPL", "MSFT"}

\* Values of the sliders.
SliderParams == {default_params, [default_params EXCEPT !.ma_short_period = 5]}

\* What starts a run: the Fetch Data button, a timeframe button, or any
\* other widget ("none": the ticker box, a slider, a checkbox).
Buttons == {"none", "fetch"} \cup DOMAIN timeframes

\* One run of the page.  The run Streamlit starts after a watchlist button
\* (st.rerun()) has no button pressed.
Rerun(text, pressed, indicator_params, found) ==
    /\ call = NoCall
    /\ "selected_ticker" \in DOMAIN session_state => pressed = "none"
    /\ session_state' = main(session_state, text, pressed, indicator_params, found)
    /\ call' = [op |-> "main", ticker |-> run_ticker(session_state, text),
                pressed |-> pressed, indicator_params |-> indicator_params,
                found |-> found]
    /\ result' = NoResult
    /\ requests' = << >>
    /\ UNCHANGED <<initial_balance, ledger, alertVars>>

\* A stock button of the watchlist: the run stores the selection and ends
\* at st.rerun().
LoadFromWatchlist(stock) ==
    /\ call = NoCall
    /\ "selected_ticker" \notin DOMAIN session_state
    /\ session_state' = dict_set(session_state, "selected_ticker", stock)
    /\ call' = [op |-> "load", ticker |-> stock]
    /\ result' = NoResult
    /\ requests' = << >>
    /\ UNCHANGED <<initial_balance, ledger, alertVars>>

PageNext ==
    \/ \E text \in PageTickers, pressed \in Buttons, indicator_params \in SliderParams,
          found \in BOOLEAN :
            Rerun(text, pressed, indicator_params, found)
    \/ \E stock \in Watchlist : LoadFromWatchlist(stock)
    \/ Return

\* The page's specification; the account and the alerts stay as constructed.
PageSpec == Init /\ [][PageNext]_vars

--------------------------------------------------------------------------
(* Properties of the ledger *)

\* In a step's new state: an execute_trade call has just run.
Traded == call.op = "execute_trade"

\* The ticker, after upper(), the quantity and the price of the call that has
\* just run (the price is None when none was passed and no quote came back).
CallTicker   == upper(call.ticker)
CallQuantity == call.quantity
CallPrice    == IF call.price = None THEN call.live ELSE call.price
CallValue    == FMul(float(CallQuantity), CallPrice)

\* The quantity / total cost held of ticker t in the dict pos (0 if absent).
HeldQuantity(pos, t) == IF t \in DOMAIN pos THEN pos[t].quantity ELSE 0
HeldCost(pos, t)     == IF t \in DOMAIN pos THEN pos[t].total_cost ELSE float(0)

\* Every position but ticker t's is the same before and after the step.
OthersUnchanged(t) ==
    /\ DOMAIN positions' \ {t} = DOMAIN positions \ {t}
    /\ \A u \in DOMAIN positions \ {t} : positions'[u] = positions[u]

\* C1: cash_balance is >= 0 in every reachable state, whatever ticker, side,
\* quantity and price the execute_trade calls were given.
C1_CashNeverNegative == FLe(float(0), cash_balance)

\* C2: a BUY whose required cash quantity*price exceeds cash_balance returns
\* failure with the insufficient-funds message and leaves cash_balance,
\* positions and trade_history as they were.
C2_BuyOverCashRejected ==
    [][(/\ Traded'
        /\ call'.trade_type = "BUY"
        /\ CallPrice' # None
        /\ FLt(cash_balance, CallValue'))
       => (/\ ~result'.ok
           /\ result'.msg = "Insufficient funds"
           /\ UNCHANGED ledger)]_vars

\* A BUY costing more than the cash at hand has just been rejected, on an
\* account that already holds a position and a trade record.
C2_Witness ==
    /\ Traded
    /\ call.trade_type = "BUY"
    /\ CallPrice # None
    /\ FLt(cash_balance, CallValue)
    /\ result.msg = "Insufficient funds"
    /\ positions # EmptyDict
    /\ Len(trade_history) > 0

\* The ticker of the call is not held, or held in a smaller quantity than the
\* call asks to sell.
SellsMoreThanHeld ==
    /\ Traded'
    /\ call'.trade_type = "SELL"
    /\ \/ CallTicker' \notin DOMAIN positions
       \/ positions[CallTicker'].quantity < CallQuantity'

\* C3 as stated: a SELL of a ticker not held, or of more shares than held,
\* returns failure with the insufficient-shares message and leaves
\* cash_balance, positions and trade_history as they were.
C3_SellOverHeldRejected ==
    [][SellsMoreThanHeld
       => (/\ ~result'.ok
           /\ result'.msg = "Insufficient shares"
           /\ UNCHANGED ledger)]_vars

\* C3 amended: such a SELL returns failure and leaves cash_balance, positions
\* and trade_history as they were; the message is the insufficient-shares one
\* when the trade has a price (passed, or quoted), and the quote-unavailable
\* one when no price was passed and no quote came back.
C3_SellOverHeldRejectedOrNoQuote ==
    [][SellsMoreThanHeld
       => (/\ ~result'.ok
           /\ UNCHANGED ledger
           /\ result'.msg = IF CallPrice' = None
                            THEN "Could not fetch current price"
                            ELSE "Insufficient shares")]_vars

\* A SELL of more shares than the held quantity has just been rejected.
C3_Witness ==
    /\ Traded
    /\ call.trade_type = "SELL"
    /\ CallTicker \in DOMAIN positions
    /\ positions[CallTicker].quantity > 0
    /\ positions[CallTicker].quantity < CallQuantity
    /\ result.msg = "Insufficient shares"

\* C4: every Position with quantity > 0 has total_cost = quantity * avg_price,
\* and every Position with quantity = 0 has avg_price = 0 and total_cost = 0,
\* whatever quantities and prices execute_trade was given.
C4_CostIsQuantityTimesAverage ==
    \A t \in DOMAIN positions :
        /\ positions[t].quantity > 0 =>
              positions[t].total_cost = FMul(float(positions[t].quantity), positions[t].avg_price)
        /\ positions[t].quantity = 0 =>
              /\ positions[t].avg_price = float(0)
              /\ positions[t].total_cost = float(0)

\* C5: a successful BUY of q shares of T at price p takes q*p off
\* cash_balance, leaves T held with q more shares, total_cost raised by q*p
\* and avg_price = (old total_cost + q*p) / (old quantity + q), and leaves the
\* positions of the other tickers as they were.
C5_SuccessfulBuy ==
    [][(Traded' /\ call'.trade_type = "BUY" /\ result'.ok)
       => LET T       == CallTicker'
              newQty  == HeldQuantity(positions, T) + CallQuantity'
              newCost == FAdd(HeldCost(positions, T), CallValue')
          IN  /\ cash_balance' = FSub(cash_balance, CallValue')
              /\ T \in DOMAIN positions'
              /\ positions'[T].quantity = newQty
              /\ positions'[T].total_cost = newCost
              /\ newQty # 0
              /\ positions'[T].avg_price = FDiv(newCost, float(newQty))
              /\ OthersUnchanged(T)]_vars

C7_HeldQuantityPositive ==
    \A t \in DOMAIN positions : positions[t].quantity > 0

\* C8: execute_trade with a zero or negative quantity returns failure and
\* leaves cash_balance, positions and trade_history as they were, for BUY and
\* for SELL.
C8_NonPositiveQuantityRejected ==
    [][(/\ Traded'
        /\ call'.trade_type \in {"BUY", "SELL"}
        /\ CallQuantity' <= 0)
       => (~result'.ok /\ UNCHANGED ledger)]_vars

\* C9: execute_trade called without a price, when the price service has no
\* quote, returns failure (quote unavailable), leaves cash_balance, positions
\* and trade_history as they were, and has asked the service once, for the
\* call's ticker.
C9_NoQuoteNoTrade ==
    [][(Traded' /\ call'.price = None /\ call'.live = None)
       => (/\ ~result'.ok
           /\ result'.msg = "Could not fetch current price"
           /\ UNCHANGED ledger
           /\ requests' = <<CallTicker'>>)]_vars

\* A BUY the account could pay for at any quoted price has just failed for
\* want of a quote, on an account that holds a position.
C9_Witness ==
    /\ Traded
    /\ call.trade_type = "BUY"
    /\ call.quantity = 1
    /\ call.price = None
    /\ call.live = None
    /\ ~result.ok
    /\ FLe(float(2), cash_balance)
    /\ positions # EmptyDict

\* C10: a successful execute_trade appends exactly one Trade at the end of
\* trade_history, with the call's ticker (upper-cased), side, quantity, price
\* and total_value = quantity * price; a failed one leaves trade_history as it
\* was; earlier records are neither changed nor removed, and only
\* reset_account empties the history.
C10_HistoryAppendOnly ==
    [][/\ (Traded' /\ result'.ok) =>
             trade_history' = Append(trade_history,
                 [ticker      |-> CallTicker',
                  trade_type  |-> call'.trade_type,
                  quantity    |-> CallQuantity',
                  price       |-> CallPrice',
                  timestamp   |-> now,
                  total_value |-> CallValue'])
       /\ (Traded' /\ ~result'.ok) => trade_history' = trade_history
       /\ call'.op # "reset_account" =>
             /\ Len(trade_history') >= Len(trade_history)
             /\ SubSeq(trade_history', 1, Len(trade_history)) = trade_history]_vars

\* A second trade has just been recorded after a first one, at a quoted price.
C10_Witness ==
    /\ Traded
    /\ result.ok
    /\ call.price = None
    /\ Len(trade_history) = 2
    /\ trade_history[2].ticker = CallTicker
    /\ trade_history[2] # trade_history[1]


\* C11: after reset_account, from any state of the ledger, cash_balance is
\* initial_balance and positions and trade_history are empty; no operation
\* changes initial_balance.
C11_ResetRestoresInitialState ==
    [][/\ call'.op = "reset_account" =>
             /\ cash_balance' = initial_balance
             /\ positions' = EmptyDict
             /\ trade_history' = << >>
       /\ initial_balance' = initial_balance]_vars

\* An account created with a balance of 4 has just been reset.
C11_Witness ==
    /\ call.op = "reset_account"
    /\ initial_balance = float(4)
    /\ cash_balance = float(4)
    /\ positions = EmptyDict
    /\ trade_history = << >>


\* What ticker t adds to the portfolio value when the price service answers
\* quotes: quantity * quoted price if t is held and quoted, else 0.
QuotedValue(t, quotes) ==
    IF t \in DOMAIN positions /\ quotes[t] # None
    THEN FMul(float(positions[t].quantity), quotes[t])
    ELSE float(0)

\* The held tickers the price service had no quote for.
Unquoted(quotes) == {t \in DOMAIN positions : quotes[t] = None}

\* C12: get_portfolio_value returns cash_balance plus, for each held ticker
\* with a quote, quantity * quoted price; a held ticker without a quote adds 0
\* and the others are still valued; the call changes nothing in the ledger.
C12_PortfolioValue ==
    [][call'.op = "get_portfolio_value" =>
          /\ result'.value =
                FAdd(cash_balance, FAdd(QuotedValue("AAPL", call'.live),
                                        QuotedValue("MSFT", call'.live)))
          /\ UNCHANGED <<initial_balance, cash_balance, positions, trade_history>>]_vars

\* Two tickers are held, one has a quote and the other has none, and the
\* returned value counts the quoted one.
C12_Witness ==
    /\ call.op = "get_portfolio_value"
    /\ DOMAIN positions = {"AAPL", "MSFT"}
    /\ positions["AAPL"].quantity > 0
    /\ positions["MSFT"].quantity > 0
    /\ call.live["AAPL"] # None
    /\ call.live["MSFT"] = None
    /\ result.value = FAdd(cash_balance, FMul(float(positions["AAPL"].quantity), call.live["AAPL"]))
    /\ result.value # cash_balance


\* The value get_portfolio_value returns in the state before the step when the
\* price service answers quotes.
ValueUnder(quotes) ==
    FAdd(cash_balance, FAdd(QuotedValue("AAPL", quotes), QuotedValue("MSFT", quotes)))

\* C13: the result of a valuation tells the caller which held tickers had no
\* quote.  For get_portfolio_value: two answers of the price service that
\* leave different held tickers without a quote never give the same returned
\* value.  For get_positions_df: every held ticker without a quote has a row
\* in the table.  (Stated for accounts whose held quantities are all > 0.)
C13_UnquotedTickersFlagged ==
    [][(\A t \in DOMAIN positions : positions[t].quantity > 0) =>
       /\ call'.op = "get_portfolio_value" =>
             \A other \in [DOMAIN positions -> get_live_price] :
                 ValueUnder(other) = result'.value =>
                     Unquoted(other) = Unquoted(call'.live)
       /\ call'.op = "get_positions_df" =>
             \A t \in Unquoted(call'.live) :
                 \E i \in 1..Len(result'.value) : result'.value[i].Ticker = t]_vars


--------------------------------------------------------------------------
(* Properties of the price alerts *)

\* The identities of the alerts in a list, and the alert of an identity.
IdsOf(list) == {list[i].id : i \in 1..Len(list)}

AlertById(list, id) == list[CHOOSE i \in 1..Len(list) : list[i].id = id]

\* The alert's condition holds at a price.
ConditionHolds(alert, price) ==
    \/ alert.alert_type = "above" /\ FLe(alert.target_price, price)
    \/ alert.alert_type = "below" /\ FLe(price, alert.target_price)

\* C14: an alert's triggered flag only moves from false to true: whatever
\* call is made (check_all_alerts, check_trigger, add_alert, remove_alert,
\* clear_triggered_alerts), an alert that was triggered and is still managed
\* stays triggered with the same triggered_at.
C14_TriggeredIsPermanent ==
    [][\A id \in IdsOf(alerts) :
          (AlertById(alerts, id).triggered /\ id \in IdsOf(alerts')) =>
              /\ AlertById(alerts', id).triggered
              /\ AlertById(alerts', id).triggered_at = AlertById(alerts, id).triggered_at]_vars

\* A triggered alert was checked again, later and at a price that meets its
\* condition, and kept its triggered_at.
C14_Witness ==
    /\ call.op = "check_trigger"
    /\ \E i \in 1..Len(alerts) :
        /\ alerts[i].id = call.id
        /\ alerts[i].triggered
        /\ alerts[i].triggered_at < now
        /\ ConditionHolds(alerts[i], call.price)
        /\ result.value = FALSE

\* The claimed rule: 'above' fires at price >= target, 'below' at price <=
\* target.
ShouldFire(alert, price) ==
    \/ alert.alert_type = "above" /\ ~FLt(price, alert.target_price)
    \/ alert.alert_type = "below" /\ ~FLt(alert.target_price, price)

\* The alert after an evaluation that fired at time t, and one that did not.
Fired(alert, t) == [alert EXCEPT !.triggered = TRUE, !.triggered_at = t]

Evaluated(alert, price, t) == IF ShouldFire(alert, price) THEN Fired(alert, t) ELSE alert

\* C15: an untriggered alert evaluated against a quoted price, by check_trigger
\* or by check_all_alerts, triggers exactly when the price is >= the target
\* ('above') or <= the target ('below'), a price equal to the target included;
\* otherwise it stays untriggered.
C15_InclusiveThresholds ==
    [][/\ call'.op = "check_trigger" =>
            \A i \in 1..Len(alerts) :
                (alerts[i].id = call'.id /\ ~alerts[i].triggered) =>
                    /\ alerts'[i] = Evaluated(alerts[i], call'.price, now)
                    /\ result'.value = ShouldFire(alerts[i], call'.price)
       /\ call'.op = "check_all_alerts" =>
            \A i \in 1..Len(alerts) :
                (~alerts[i].triggered /\ call'.live[alerts[i].ticker] # None) =>
                    alerts'[i] = Evaluated(alerts[i], call'.live[alerts[i].ticker], now)]_vars

\* An 'above' and a 'below' alert were both fired by a quote equal to their
\* target in one check_all_alerts call.
C15_Witness ==
    /\ call.op = "check_all_alerts"
    /\ \E i, j \in 1..Len(alerts) :
        /\ alerts[i].alert_type = "above" /\ alerts[j].alert_type = "below"
        /\ alerts[i].triggered /\ alerts[j].triggered
        /\ alerts[i].triggered_at = now /\ alerts[j].triggered_at = now
        /\ alerts[i].ticker \in DOMAIN call.live /\ alerts[j].ticker \in DOMAIN call.live
        /\ call.live[alerts[i].ticker] = alerts[i].target_price
        /\ call.live[alerts[j].ticker] = alerts[j].target_price
        /\ Len(result.value) = 2

\* The identities of the alerts that are untriggered in list and triggered in
\* after.
FlippedIds(list, after) ==
    {id \in IdsOf(list) \cap IdsOf(after) :
        ~AlertById(list, id).triggered /\ AlertById(after, id).triggered}

\* C16: check_all_alerts returns exactly the alerts whose triggered flag went
\* from false to true during the call, in the order of the managed list; an
\* alert triggered before the call is not returned, so no alert is returned
\* by two calls.
C16_ReturnsNewlyTriggered ==
    [][call'.op = "check_all_alerts" =>
          /\ result'.value = SelectSeq(alerts', LAMBDA a : a.id \in FlippedIds(alerts, alerts'))
          /\ \A k \in 1..Len(result'.value) :
                ~AlertById(alerts, result'.value[k].id).triggered]_vars

\* A check_all_alerts call returned one alert while another alert on the same
\* ticker, triggered by an earlier call, was not returned again.
C16_Witness ==
    /\ call.op = "check_all_alerts"
    /\ Len(result.value) = 1
    /\ \E i \in 1..Len(alerts) :
        /\ alerts[i].triggered
        /\ alerts[i].triggered_at < now
        /\ alerts[i].ticker = result.value[1].ticker
        /\ alerts[i].id # result.value[1].id
        /\ ConditionHolds(alerts[i], call.live[alerts[i].ticker])

\* C17: in check_all_alerts a ticker without a quote affects only its own
\* alerts: an untriggered alert on it stays as it was, untriggered and with
\* triggered_at unset, and an untriggered alert on a quoted ticker is still
\* evaluated, and triggered if its condition holds.
C17_UnquotedTickerIsolated ==
    [][call'.op = "check_all_alerts" =>
          \A i \in 1..Len(alerts) :
              ~alerts[i].triggered =>
                  IF call'.live[alerts[i].ticker] = None
                  THEN /\ alerts'[i] = alerts[i]
                       /\ alerts'[i].triggered_at = NoTime
                  ELSE ShouldFire(alerts[i], call'.live[alerts[i].ticker]) =>
                          /\ alerts'[i].triggered
                          /\ alerts'[i].triggered_at = now]_vars

\* One check_all_alerts call in which a ticker had no quote and its alert
\* stayed untriggered, while the alert on the other, quoted ticker fired.
C17_Witness ==
    /\ call.op = "check_all_alerts"
    /\ \E i, j \in 1..Len(alerts) :
        /\ alerts[i].ticker # alerts[j].ticker
        /\ alerts[i].ticker \in DOMAIN call.live /\ alerts[j].ticker \in DOMAIN call.live
        /\ call.live[alerts[i].ticker] = None
        /\ ~alerts[i].triggered /\ alerts[i].triggered_at = NoTime
        /\ call.live[alerts[j].ticker] # None
        /\ alerts[j].triggered /\ alerts[j].triggered_at = now
        /\ result.value = <<alerts[j]>>

\* The untriggered alerts of a list on ticker u (their positions).
UntriggeredOn(list, u) == {i \in 1..Len(list) : ~list[i].triggered /\ list[i].ticker = u}

\* C18: one check_all_alerts call asks the price service at most once per
\* ticker, only for tickers that an untriggered alert refers to, and not at
\* all when no alert is untriggered; the alerts on one ticker are evaluated
\* against one quote.
C18_OneQuotePerTicker ==
    [][call'.op = "check_all_alerts" =>
          /\ \A m, n \in 1..Len(requests') : requests'[m] = requests'[n] => m = n
          /\ \A m \in 1..Len(requests') : UntriggeredOn(alerts, requests'[m]) # {}
          /\ (\A i \in 1..Len(alerts) : alerts[i].triggered) => requests' = << >>
          /\ \A u \in {alerts[i].ticker : i \in 1..Len(alerts)} :
                \E q \in alert_quotes :
                    \A i \in UntriggeredOn(alerts, u) :
                        alerts'[i] = IF q = None THEN alerts[i]
                                     ELSE Evaluated(alerts[i], q, now)]_vars

\* A check_all_alerts call with two untriggered alerts on one ticker asked
\* for that ticker once and fired both.
C18_Witness ==
    /\ call.op = "check_all_alerts"
    /\ Len(alerts) = 2
    /\ alerts[1].ticker = alerts[2].ticker
    /\ Len(requests) = 1
    /\ requests[1] = alerts[1].ticker
    /\ Len(result.value) = 2

C19_WitnessOutOfRange ==
    /\ call.op = "remove_alert"
    /\ call.index = -1
    /\ Len(alerts) = 2

--------------------------------------------------------------------------
(* Properties of the resampler *)

\* The timeframes resample_data_to_timeframe is documented for.
SupportedTimeframes == {"1D", "1W", "1M", "3M"}

\* C20: resample_data_to_timeframe with a timeframe outside '1D', '1W', '1M',
\* '3M' gives its caller an input error and does not return the input series
\* as if it had been resampled.
C20_UnsupportedTimeframeIsError ==
    [][(call'.op = "resample_data_to_timeframe" /\ call'.timeframe \notin SupportedTimeframes) =>
          /\ ~result'.ok
          /\ result'.value # call'.data]_vars

\* The timeframes coarser than the daily one.
CoarserTimeframes == {"1W", "1M", "3M"}

\* The week (Saturday to Friday) a day falls in, numbered from the week of
\* Friday 5 January 2024.
WeekOf(n) == (n + 2) \div 7

\* Two days in one period of a timeframe: the same week, the same month; for
\* '3M' a period is made of whole months, so two days of one month are in one
\* period.
SamePeriod(timeframe, m, n) ==
    IF timeframe = "1W" THEN WeekOf(m) = WeekOf(n) ELSE month(m) = month(n)

\* Two days that the timeframe puts in different periods whatever the series
\* (for '3M' the claim about the quarters is C22).
OtherPeriod(timeframe, m, n) ==
    /\ timeframe # "3M"
    /\ ~SamePeriod(timeframe, m, n)

\* The source bars i..j summed.
RECURSIVE VolumeOf(_, _, _)
VolumeOf(bars, i, j) == IF i > j THEN 0 ELSE bars[i].Volume + VolumeOf(bars, i + 1, j)

\* Output bar out aggregates the source bars i..j.
Aggregates(out, bars, i, j) ==
    /\ out.Open = bars[i].Open
    /\ out.Close = bars[j].Close
    /\ \A k \in i..j : FLe(bars[k].High, out.High) /\ FLe(out.Low, bars[k].Low)
    /\ \E k \in i..j : bars[k].High = out.High
    /\ \E k \in i..j : bars[k].Low = out.Low
    /\ out.Volume = VolumeOf(bars, i, j)

\* The position after the last cut before position i (a cut c parts bars c
\* and c + 1), and the position of the first cut from i on.
GroupStart(cuts, i) ==
    IF \E c \in cuts : c < i THEN 1 + (CHOOSE c \in cuts : c < i /\ \A e \in cuts : e < i => e <= c)
    ELSE 1

GroupEnd(cuts, i, last) ==
    IF \E c \in cuts : c >= i THEN CHOOSE c \in cuts : c >= i /\ \A e \in cuts : e >= i => c <= e
    ELSE last

\* The output bars are the aggregates of the periods of the source bars: the
\* source bars are cut into consecutive groups, one per output bar and none
\* empty, bars of one period are in one group, bars of different periods in
\* different groups, and each output bar aggregates its group.
AggregatesPeriods(timeframe, bars, out) ==
    IF bars = << >> THEN out = << >>
    ELSE \E cuts \in SUBSET (1..(Len(bars) - 1)) :
            /\ Len(out) = Cardinality(cuts) + 1
            /\ \A c \in 1..(Len(bars) - 1) :
                /\ SamePeriod(timeframe, bars[c].date, bars[c + 1].date) => c \notin cuts
                /\ OtherPeriod(timeframe, bars[c].date, bars[c + 1].date) => c \in cuts
            /\ \A i \in 1..Len(bars) :
                Aggregates(out[1 + Cardinality({c \in cuts : c < i})], bars,
                           GroupStart(cuts, i), GroupEnd(cuts, i, Len(bars)))

C21_DatedBarsAggregatePeriods ==
    [][(/\ call'.op = "resample_data_to_timeframe"
        /\ call'.timeframe \in CoarserTimeframes
        /\ call'.data.datetime_index) =>
          AggregatesPeriods(call'.timeframe, call'.data.bars, result'.value.bars)]_vars

\* A weekly resampling made one bar of the two bars of a week and dropped
\* the empty weeks up to the next bar.
C21_Witness ==
    /\ call.op = "resample_data_to_timeframe"
    /\ call.timeframe = "1W"
    /\ call.data.datetime_index
    /\ Len(call.data.bars) = 3
    /\ call.data.bars[1].date = 3 /\ call.data.bars[2].date = 4 /\ call.data.bars[3].date = 91
    /\ Len(result.value.bars) = 2
    /\ result.value.bars[1].Volume = call.data.bars[1].Volume + call.data.bars[2].Volume

\* The calendar quarter a day falls in (the quarters are numbered on from the
\* first quarter of 2024, so the number tells the year too).
QuarterOf(n) == (month(n) - 1) \div 3

\* The output bars are the aggregates of the calendar quarters of the source
\* bars: two consecutive source bars are parted exactly when their quarters
\* differ.
AggregatesQuarters(bars, out) ==
    IF bars = << >> THEN out = << >>
    ELSE LET cuts == {c \in 1..(Len(bars) - 1) :
                         QuarterOf(bars[c].date) # QuarterOf(bars[c + 1].date)}
         IN  /\ Len(out) = Cardinality(cuts) + 1
             /\ \A i \in 1..Len(bars) :
                 Aggregates(out[1 + Cardinality({c \in cuts : c < i})], bars,
                            GroupStart(cuts, i), GroupEnd(cuts, i, Len(bars)))

\* C22: with the timeframe '3M' resample_data_to_timeframe groups the bars by
\* calendar quarter: two bars are in one output bar exactly when they are in
\* the same quarter of the same year, whatever the date of the first bar.
C22_QuartersGroupBars ==
    [][(/\ call'.op = "resample_data_to_timeframe"
        /\ call'.timeframe = "3M"
        /\ call'.data.datetime_index) =>
          AggregatesQuarters(call'.data.bars, result'.value.bars)]_vars

\* C23: at the native timeframe '1D' resample_data_to_timeframe returns the
\* input series unchanged (same bars, same order, same values), so applying
\* it again gives the same series.
C23_NativeTimeframeIsIdentity ==
    [][(call'.op = "resample_data_to_timeframe" /\ call'.timeframe = "1D") =>
          /\ result'.value = call'.data
          /\ Len(result'.value.bars) = Len(call'.data.bars)
          /\ \A i \in 1..Len(call'.data.bars) : result'.value.bars[i] = call'.data.bars[i]
          /\ resample_data_to_timeframe(result'.value, "1D").value = result'.value]_vars

\* A frame with two bars in one week and bars in other months went through
\* the '1D' timeframe and came back with its five bars.
C23_Witness ==
    /\ call.op = "resample_data_to_timeframe"
    /\ call.timeframe = "1D"
    /\ Len(call.data.bars) = Cardinality(Days)
    /\ result.value = call.data

--------------------------------------------------------------------------
(* Properties of the indicators *)

\* The parameters a call of add_all_indicators works with.
ParamsOf(given) == IF given = None THEN default_params ELSE given

\* The mean of the last window bars at bar i, for a bar with a full window.
MeanAt(prices, window, i) == FDiv(window_sum(prices, i - window + 1, i), float(window))

\* series is the window-bar moving average of prices.
IsMovingAverage(series, prices, window) ==
    /\ Len(series) = Len(prices)
    /\ \A i \in 1..Len(prices) :
        series[i] = IF i < window THEN NaN ELSE MeanAt(prices, window, i)

\* C24: for every parameter set add_all_indicators holds, under the column
\* named for period p, the indicator computed with period p: MA<short> is
\* the short-period moving average and MA<long> the long-period one, also
\* when one of the periods is 20.
C24_ColumnsNamedByPeriod ==
    [][call'.op = "add_all_indicators" =>
          LET params == ParamsOf(call'.params)
              close == call'.data["Close"]
          IN  /\ IsMovingAverage(result'.value[MA_column(params.ma_short_period)],
                                 close, params.ma_short_period)
              /\ IsMovingAverage(result'.value[MA_column(params.ma_long_period)],
                                 close, params.ma_long_period)]_vars

\* The smoothed average loss of a series at bar i.
AvgLossAt(prices, period, i) ==
    ewm_mean([k \in 1..Len(prices) |-> neg_clip_upper(diff(prices)[k])], period, i)

\* C25: whenever the smoothed average loss at a bar is exactly 0,
\* calculate_rsi gives 100 at that bar and not NaN, also when the smoothed
\* average gain is 0 too (a constant series); every defined value is in
\* [0, 100].
C25_RsiIs100WithoutLoss ==
    [][call'.op = "calculate_rsi" =>
          \A i \in 1..Len(call'.prices) :
              /\ AvgLossAt(call'.prices, call'.period, i) = float(0) =>
                    result'.value[i] = float(100)
              /\ result'.value[i] # NaN =>
                    /\ FLe(float(0), result'.value[i])
                    /\ FLe(result'.value[i], float(100))]_vars

--------------------------------------------------------------------------
(* Properties of the exported trade history *)

\* C26: the table get_trade_history_df returns has one row per recorded
\* trade, with the trade's ticker, side, quantity, price, total value and
\* timestamp, and the most recent trade comes first: of any two trades, the
\* one executed later (the one later in trade_history) is in an earlier row.
C26_HistoryMostRecentFirst ==
    [][call'.op = "get_trade_history_df" =>
          LET df == result'.value
          IN  /\ Len(df) = Len(trade_history)
              /\ \A k \in 1..Len(trade_history) :
                    \E r \in 1..Len(df) :
                        /\ df[r].index = k - 1
                        /\ df[r].row = to_dict(trade_history[k])
              /\ \A r, s \in 1..Len(df) : r < s => df[r].index > df[s].index]_vars

--------------------------------------------------------------------------
(* Properties of the alerts page *)

\* C27: pressing the Delete button shown next to an active alert removes
\* exactly that alert from the manager and no other: the alerts left are the
\* alerts before without the one the button was next to, in the same order,
\* also when triggered alerts that were not cleared come before it.
C27_DeleteRemovesShownAlert ==
    [][call'.op = "delete_button" =>
          alerts' = SelectSeq(alerts, LAMBDA a : a.id # call'.shown)]_vars

--------------------------------------------------------------------------
(* Properties that tie the ledger to its trade history *)

\* The sum of total_value over the records of one side in history[1..k].
RECURSIVE TotalValueOf(_, _, _)
TotalValueOf(history, side, k) ==
    IF k = 0 THEN float(0)
    ELSE FAdd(TotalValueOf(history, side, k - 1),
              IF history[k].trade_type = side THEN history[k].total_value ELSE float(0))

\* The sum of quantity over the records of one side and one ticker in
\* history[1..k]; the tickers are compared in upper case.
RECURSIVE QuantityOf(_, _, _, _)
QuantityOf(history, side, ticker, k) ==
    IF k = 0 THEN 0
    ELSE QuantityOf(history, side, ticker, k - 1)
         + (IF history[k].trade_type = side /\ upper(history[k].ticker) = upper(ticker)
            THEN history[k].quantity ELSE 0)

\* C28: in every reachable ledger state cash_balance equals initial_balance
\* minus the sum of total_value over the BUY records of trade_history plus
\* the sum of total_value over its SELL records.
C28_CashMatchesHistory ==
    cash_balance =
        FAdd(FSub(initial_balance, TotalValueOf(trade_history, "BUY", Len(trade_history))),
             TotalValueOf(trade_history, "SELL", Len(trade_history)))

\* A BUY and a SELL are on record, and a rejected trade has just returned.
C28_Witness ==
    /\ \E i, j \in 1..Len(trade_history) :
            trade_history[i].trade_type = "BUY" /\ trade_history[j].trade_type = "SELL"
    /\ call.op = "execute_trade" /\ ~result.ok
    /\ cash_balance # initial_balance
    /\ C28_CashMatchesHistory

\* C29: in every reachable ledger state and for every ticker, the quantity
\* held (0 when the ticker is not in positions) equals the sum of the
\* quantities of the ticker's BUY records minus the sum of the quantities of
\* its SELL records in trade_history, whatever the letter case of the ticker.
C29_HoldingsMatchHistory ==
    \A ticker \in RawTickers \cup DOMAIN positions :
        HeldQuantity(positions, upper(ticker)) =
            QuantityOf(trade_history, "BUY", ticker, Len(trade_history))
            - QuantityOf(trade_history, "SELL", ticker, Len(trade_history))

\* A ticker bought in lower case is held after a partial sale, and another
\* ticker is not held.
C29_Witness ==
    /\ Len(trade_history) = 2
    /\ trade_history[1].trade_type = "BUY" /\ trade_history[1].quantity = 2
    /\ trade_history[2].trade_type = "SELL" /\ trade_history[2].quantity = 1
    /\ call.op = "execute_trade" /\ call.ticker = "aapl"
    /\ HeldQuantity(positions, "AAPL") = 1
    /\ HeldQuantity(positions, "MSFT") = 0
    /\ C29_HoldingsMatchHistory

--------------------------------------------------------------------------
(* Properties of the dashboard page *)

\* C30: whenever session state holds 'stock_data' it holds 'current_ticker'
\* too, and the stored series is the series of the stored current_ticker,
\* computed with the stored 'indicator_params'; recomputing the indicators
\* after a slider change does not store another ticker's series under the
\* old current_ticker.
C30_StoredSeriesIsCurrentTickers ==
    "stock_data" \in DOMAIN session_state =>
        /\ "current_ticker" \in DOMAIN session_state
        /\ "indicator_params" \in DOMAIN session_state
        /\ session_state["stock_data"].data.ticker = session_state["current_ticker"]
        /\ session_state["stock_data"].indicator_params = session_state["indicator_params"]
==========================================================================
